---- MODULE Spec2Model ----
(***************************************************************************)
(* Model of deployment/app.py: a Streamlit script that is re-executed from *)
(* top to bottom on every widget interaction.  One script run loads the    *)
(* selected model, opens a PostgreSQL connection, creates the predictions  *)
(* table if it is absent, shows the global feature importance and, when    *)
(* the Predict button started the run, predicts, explains, inserts one row *)
(* and commits; the last statement closes the connection.                  *)
(*                                                                         *)
(* Widget values (selectbox, number_input) live in the Streamlit session   *)
(* and survive reruns; the database survives reruns; every other name of   *)
(* the script is rebound by each run.  An exception raised by any          *)
(* statement ends the run at that statement.                               *)
(***************************************************************************)
EXTENDS Integers, Sequences, FiniteSets, TLC

\* ---------------------------------------------------------------- bounds
\* Number of script runs explored.
MaxRuns == 3
\* Length of the feature schema explored (the list `features` has 19 names).
NumFeatures == 2

\* Values a number_input may hold (value=0.0 is the default).
InputVals == {-1, 0, 1}
\* Values of model.coef_[0][i] of a fitted logistic regression.
CoefVals == {-2, 0, 1}
\* Values of model.feature_importances_[i] of a fitted tree ensemble.
ImportanceVals == {0, 1}
\* Rows predict_proba may return, as <<P(benign), P(malignant)>> in quarters.
ProbaRows == {<<0, 4>>, <<3, 1>>}

\* ---------------------------------------------------------------- script constants
\* Keys of model_paths.
model_names ==
    {"Logistic Regression", "Gradient Boosting", "LightGBM", "XGBoost", "Catboost"}

\* Identifiers a caller may hand to the lookup model_paths[...].
ModelIds == model_names \cup {"Unknown"}

\* Indices of the list `features`, in schema order.
features == 1..NumFeatures

\* Python's None and a present value.
None == <<>>
Some(v) == <<v>>

\* The name `model` before joblib.load has bound it.
NoModel == [kind |-> "unbound"]

\* Objects joblib.load may return for a path of model_paths.
Artifacts(name) ==
    IF name = "Logistic Regression"
    THEN [kind : {"linear"}, coef_ : [features -> CoefVals],
          has_predict_proba : BOOLEAN]
    ELSE [kind : {"tree"}, feature_importances_ : [features -> ImportanceVals],
          has_predict_proba : BOOLEAN]

Abs(x) == IF x < 0 THEN -x ELSE x

VARIABLES
    \* Streamlit session
    selected_model_name,   \* st.sidebar.selectbox("Select Model", ...)
    input_data,            \* the number_input values, by feature
    button,                \* st.sidebar.button("Predict") of this run
    \* PostgreSQL
    table_exists,          \* relation predictions is in the catalog
    rows,                  \* committed rows of predictions, in insertion order
    id_seq,                \* last value of predictions_id_seq
    pending,               \* row inserted by the open transaction, or None
    \* names bound by the run
    pc,
    model,
    conn,
    global_importance_df_sorted,
    prediction,
    prediction_proba,
    prediction_result,
    prediction_proba_benign,
    prediction_proba_malignant,
    feature_contributions,
    feature_contributions_sorted,
    err,
    \* history
    runs,                  \* script runs started so far
    rows_at_start,         \* rows when the current run started
    predict_calls,         \* calls of model.predict in this run
    explain_calls,         \* executions of the explanation in this run
    insert_attempts        \* executions of the INSERT in this run

session == <<selected_model_name, input_data, button>>
database == <<table_exists, rows, id_seq, pending>>
predicted == <<prediction, prediction_proba>>
explained == <<prediction_result, prediction_proba_benign,
               prediction_proba_malignant, feature_contributions,
               feature_contributions_sorted>>
history == <<runs, rows_at_start, predict_calls, explain_calls, insert_attempts>>
vars == <<session, database, pc, model, conn, global_importance_df_sorted,
          predicted, explained, err, history>>

\* ---------------------------------------------------------------- pure parts

\* Mutant of SortValues: the ascending flag is ignored.
SortValuesAscending(scores, ascending) ==
    {p \in [features -> features] :
        /\ \A i, j \in features : i # j => p[i] # p[j]
        /\ \A i, j \in features : i < j => scores[p[i]] <= scores[p[j]]}

\* The orders DataFrame.sort_values(by=..., ascending=...) may return for a
\* column of scores: kind defaults to 'quicksort', which orders the rows by
\* score and promises nothing about rows of equal score.
SortValues(scores, ascending) ==
    {p \in [features -> features] :
        /\ \A i, j \in features : i # j => p[i] # p[j]
        /\ \A i, j \in features : i < j =>
              IF ascending THEN scores[p[i]] <= scores[p[j]]
                           ELSE scores[p[i]] >= scores[p[j]]}

\* Lines 69-73: np.abs(model.coef_[0]) or model.feature_importances_.
GlobalImportance(name, m) ==
    IF name = "Logistic Regression"
    THEN [i \in features |-> Abs(m.coef_[i])]
    ELSE [i \in features |-> m.feature_importances_[i]]

\* Mutant of LinearContribution: the coefficient loses its sign.
LinearContributionAbs(coefs, values) ==
    [i \in features |-> Abs(coefs[i]) * values[i]]

\* Line 143: coefs * input_df.iloc[0].values.
LinearContribution(coefs, values) ==
    [i \in features |-> coefs[i] * values[i]]

\* Line 163: feature_contributions['Importance'] * feature_contributions['Value'].
TreeContribution(importances, values) ==
    [i \in features |-> importances[i] * values[i]]

\* Lines 132-163: the Contribution column, by selected model.
Contribution(name, m, values) ==
    IF name = "Logistic Regression"
    THEN LinearContribution(m.coef_, values)
    ELSE TreeContribution(m.feature_importances_, values)

\* Lines 114-119.
PredictionResult(p) == IF p = 1 THEN "Malignant" ELSE "Benign"

\* Lines 121-129: column c (1 benign, 2 malignant) of prediction_proba[0].
ProbaColumn(proba, c) == IF proba # None THEN Some(proba[1][c]) ELSE None

\* Mutant of FloatOrNone: an absent probability is written as 0.
FloatOrZero(x) == IF x # None THEN Some(x[1]) ELSE Some(0)

\* Lines 182-183: float(x) if x is not None else None.
FloatOrNone(x) == IF x # None THEN Some(x[1]) ELSE None

\* Line 184: json.dumps(input_data), the features in insertion order.
JsonDumps(d) == [i \in features |-> <<i, d[i]>>]

\* Mutant of CreateTableIfNotExists: CREATE TABLE without IF NOT EXISTS.
CreateTable(exists, rs, sq) ==
    IF exists
    THEN [error |-> "DuplicateTable", table_exists |-> TRUE, rows |-> rs,
          id_seq |-> sq]
    ELSE [error |-> "none", table_exists |-> TRUE, rows |-> <<>>, id_seq |-> 0]

\* Lines 47-57: CREATE TABLE IF NOT EXISTS predictions (...).  The result
\* names the error raised, the catalog entry, the rows and the id sequence.
CreateTableIfNotExists(exists, rs, sq) ==
    IF exists
    THEN [error |-> "none", table_exists |-> TRUE, rows |-> rs, id_seq |-> sq]
    ELSE [error |-> "none", table_exists |-> TRUE, rows |-> <<>>, id_seq |-> 0]

\* Lines 174-186: the row the INSERT forms; id and created_at take their
\* column defaults (nextval of the sequence, CURRENT_TIMESTAMP).
InsertRow(nextid, now) ==
    [id |-> nextid,
     model_name |-> selected_model_name,
     prediction |-> prediction_result,
     prediction_proba_benign |-> FloatOrNone(prediction_proba_benign),
     prediction_proba_malignant |-> FloatOrNone(prediction_proba_malignant),
     input_data |-> JsonDumps(input_data),
     created_at |-> now]

\* ---------------------------------------------------------------- initial state
\* First run of a new session against a new database: the selectbox shows
\* its first option, every number_input its default, the button is unpressed.
Init ==
    /\ selected_model_name = "Logistic Regression"
    /\ input_data = [i \in features |-> 0]
    /\ button = FALSE
    /\ table_exists = FALSE
    /\ rows = <<>>
    /\ id_seq = 0
    /\ pending = None
    /\ pc = "load"
    /\ model = NoModel
    /\ conn = "unbound"
    /\ global_importance_df_sorted = <<>>
    /\ prediction = None
    /\ prediction_proba = None
    /\ prediction_result = "unbound"
    /\ prediction_proba_benign = None
    /\ prediction_proba_malignant = None
    /\ feature_contributions = <<>>
    /\ feature_contributions_sorted = <<>>
    /\ err = "none"
    /\ runs = 1
    /\ rows_at_start = <<>>
    /\ predict_calls = 0
    /\ explain_calls = 0
    /\ insert_attempts = 0

\* An exception leaves every name as it is and ends the run.
Raise(e) ==
    /\ pc' = "failed"
    /\ err' = e

\* ---------------------------------------------------------------- the script
\* Mutant of LoadModelNotFound: a missing key falls back to another model.
LoadModelNotFoundFallback ==
    /\ pc = "load"
    /\ selected_model_name \notin model_names
    /\ model' \in Artifacts("Gradient Boosting")
    /\ pc' = "connect"
    /\ UNCHANGED <<session, database, conn, global_importance_df_sorted,
                   predicted, explained, err, history>>

\* Line 28, model_paths[selected_model_name]: KeyError for a missing key.
LoadModelNotFound ==
    /\ pc = "load"
    /\ selected_model_name \notin model_names
    /\ Raise("KeyError")
    /\ UNCHANGED <<session, database, model, conn, global_importance_df_sorted,
                   predicted, explained, history>>

\* Line 28, joblib.load raises (missing or corrupt artifact).
LoadModelFail ==
    /\ pc = "load"
    /\ selected_model_name \in model_names
    /\ Raise("ModelLoadError")
    /\ UNCHANGED <<session, database, model, conn, global_importance_df_sorted,
                   predicted, explained, history>>

\* Line 28, joblib.load returns the fitted model.
LoadModel ==
    /\ pc = "load"
    /\ selected_model_name \in model_names
    /\ model' \in Artifacts(selected_model_name)
    /\ pc' = "connect"
    /\ UNCHANGED <<session, database, conn, global_importance_df_sorted,
                   predicted, explained, err, history>>

\* Lines 43-44, psycopg2.connect raises.
ConnectFail ==
    /\ pc = "connect"
    /\ Raise("OperationalError")
    /\ UNCHANGED <<session, database, model, conn, global_importance_df_sorted,
                   predicted, explained, history>>

\* Lines 43-44.
Connect ==
    /\ pc = "connect"
    /\ conn' = "open"
    /\ pc' = "schema"
    /\ UNCHANGED <<session, database, model, global_importance_df_sorted,
                   predicted, explained, err, history>>

\* Lines 47-59: the table creation and its commit.
EnsureSchema ==
    /\ pc = "schema"
    /\ LET r == CreateTableIfNotExists(table_exists, rows, id_seq) IN
         IF r.error = "none"
         THEN /\ table_exists' = r.table_exists
              /\ rows' = r.rows
              /\ id_seq' = r.id_seq
              /\ pc' = "importance"
              /\ err' = err
         ELSE /\ Raise(r.error)
              /\ UNCHANGED <<table_exists, rows, id_seq>>
    /\ UNCHANGED <<session, pending, model, conn, global_importance_df_sorted,
                   predicted, explained, history>>

\* Lines 65-88, a plotting call raises.
GlobalImportanceFail ==
    /\ pc = "importance"
    /\ Raise("PlotError")
    /\ UNCHANGED <<session, database, model, conn, global_importance_df_sorted,
                   predicted, explained, history>>

\* Mutant of ShowGlobalImportance: the Predict branch is entered whether or
\* not the button was pressed.
ShowGlobalImportanceNoBranch ==
    /\ pc = "importance"
    /\ global_importance_df_sorted' \in
          SortValues(GlobalImportance(selected_model_name, model), TRUE)
    /\ pc' = "predict"
    /\ UNCHANGED <<session, database, model, conn, predicted, explained, err,
                   history>>

\* Lines 65-107: the global importance, sorted for the chart; then the
\* sidebar form, and the branch on the Predict button.
ShowGlobalImportance ==
    /\ pc = "importance"
    /\ global_importance_df_sorted' \in
          SortValues(GlobalImportance(selected_model_name, model), TRUE)
    /\ pc' = IF button THEN "predict" ELSE "close"
    /\ UNCHANGED <<session, database, model, conn, predicted, explained, err,
                   history>>

\* Mutant of PredictFail: a failed evaluation is tried once more.
PredictFailRetry ==
    /\ pc = "predict"
    /\ predict_calls' = predict_calls + 1
    /\ IF predict_calls = 0
       THEN UNCHANGED <<pc, err>>
       ELSE Raise("InferenceError")
    /\ UNCHANGED <<session, database, model, conn, global_importance_df_sorted,
                   predicted, explained, runs, rows_at_start, explain_calls,
                   insert_attempts>>

\* Lines 109-110, the model raises.
PredictFail ==
    /\ pc = "predict"
    /\ predict_calls' = predict_calls + 1
    /\ Raise("InferenceError")
    /\ UNCHANGED <<session, database, model, conn, global_importance_df_sorted,
                   predicted, explained, runs, rows_at_start, explain_calls,
                   insert_attempts>>

\* Lines 109-110: the model's label and, if it has predict_proba, its
\* probabilities.
Predict ==
    /\ pc = "predict"
    /\ predict_calls' = predict_calls + 1
    /\ prediction' \in {Some(0), Some(1)}
    /\ \/ /\ model.has_predict_proba
          /\ \E row \in ProbaRows : prediction_proba' = Some(row)
       \/ /\ ~model.has_predict_proba
          /\ prediction_proba' = None
    /\ pc' = "explain"
    /\ UNCHANGED <<session, database, model, conn, global_importance_df_sorted,
                   explained, err, runs, rows_at_start, explain_calls,
                   insert_attempts>>

\* Lines 112-171, a plotting call of the explanation raises.
ExplainFail ==
    /\ pc = "explain"
    /\ explain_calls' = explain_calls + 1
    /\ Raise("ExplanationError")
    /\ UNCHANGED <<session, database, model, conn, global_importance_df_sorted,
                   predicted, explained, runs, rows_at_start, predict_calls,
                   insert_attempts>>

\* Lines 112-171: the result text, the two probabilities, the feature
\* contributions and their order in the chart.
Explain ==
    /\ pc = "explain"
    /\ prediction_result' = PredictionResult(prediction[1])
    /\ prediction_proba_benign' = ProbaColumn(prediction_proba, 1)
    /\ prediction_proba_malignant' = ProbaColumn(prediction_proba, 2)
    /\ feature_contributions' = Contribution(selected_model_name, model, input_data)
    /\ feature_contributions_sorted' \in
          SortValues(Contribution(selected_model_name, model, input_data), FALSE)
    /\ explain_calls' = explain_calls + 1
    /\ pc' = "insert"
    /\ UNCHANGED <<session, database, model, conn, global_importance_df_sorted,
                   predicted, err, runs, rows_at_start, predict_calls,
                   insert_attempts>>

\* Mutant of InsertFail: a failed INSERT is tried once more.
InsertFailRetry ==
    /\ pc = "insert"
    /\ insert_attempts' = insert_attempts + 1
    /\ IF insert_attempts = 0
       THEN UNCHANGED <<pc, err>>
       ELSE Raise("StorageWriteError")
    /\ UNCHANGED <<session, database, model, conn, global_importance_df_sorted,
                   predicted, explained, runs, rows_at_start, predict_calls,
                   explain_calls>>

\* Lines 174-186, cursor.execute raises: the error leaves the script.
InsertFail ==
    /\ pc = "insert"
    /\ insert_attempts' = insert_attempts + 1
    /\ Raise("StorageWriteError")
    /\ UNCHANGED <<session, database, model, conn, global_importance_df_sorted,
                   predicted, explained, runs, rows_at_start, predict_calls,
                   explain_calls>>

\* Lines 174-186: the row enters the open transaction.
Insert ==
    /\ pc = "insert"
    /\ insert_attempts' = insert_attempts + 1
    /\ id_seq' = id_seq + 1
    /\ pending' = Some(InsertRow(id_seq + 1, runs))
    /\ pc' = "commit"
    /\ UNCHANGED <<session, table_exists, rows, model, conn,
                   global_importance_df_sorted, predicted, explained, err,
                   runs, rows_at_start, predict_calls, explain_calls>>

\* Line 188, conn.commit raises: the transaction's row is not stored.
CommitFail ==
    /\ pc = "commit"
    /\ pending' = None
    /\ Raise("StorageWriteError")
    /\ UNCHANGED <<session, table_exists, rows, id_seq, model, conn,
                   global_importance_df_sorted, predicted, explained, history>>

\* Mutant of Commit: the new row replaces the latest row.
CommitReplace ==
    /\ pc = "commit"
    /\ rows' = IF rows = <<>> THEN <<pending[1]>>
               ELSE [rows EXCEPT ![Len(rows)] = pending[1]]
    /\ pending' = None
    /\ pc' = "close"
    /\ UNCHANGED <<session, table_exists, id_seq, model, conn,
                   global_importance_df_sorted, predicted, explained, err,
                   history>>

\* Line 188.
Commit ==
    /\ pc = "commit"
    /\ rows' = Append(rows, pending[1])
    /\ pending' = None
    /\ pc' = "close"
    /\ UNCHANGED <<session, table_exists, id_seq, model, conn,
                   global_importance_df_sorted, predicted, explained, err,
                   history>>

\* Line 191.
Close ==
    /\ pc = "close"
    /\ conn' = "closed"
    /\ pc' = "done"
    /\ UNCHANGED <<session, database, model, global_importance_df_sorted,
                   predicted, explained, err, history>>

\* ---------------------------------------------------------------- reruns
\* Streamlit starts the script again with every name unbound.
Restart ==
    /\ pc \in {"done", "failed"}
    /\ runs < MaxRuns
    /\ runs' = runs + 1
    /\ rows_at_start' = rows
    /\ predict_calls' = 0
    /\ explain_calls' = 0
    /\ insert_attempts' = 0
    /\ pc' = "load"
    /\ model' = NoModel
    /\ conn' = "unbound"
    /\ global_importance_df_sorted' = <<>>
    /\ prediction' = None
    /\ prediction_proba' = None
    /\ prediction_result' = "unbound"
    /\ prediction_proba_benign' = None
    /\ prediction_proba_malignant' = None
    /\ feature_contributions' = <<>>
    /\ feature_contributions_sorted' = <<>>
    /\ err' = "none"
    /\ UNCHANGED database

\* The user picks another entry of the selectbox.
SelectModel ==
    /\ Restart
    /\ \E name \in ModelIds \ {selected_model_name} : selected_model_name' = name
    /\ button' = FALSE
    /\ UNCHANGED input_data

\* The user edits one number_input.
EnterFeature ==
    /\ Restart
    /\ \E i \in features : \E v \in InputVals \ {input_data[i]} :
          input_data' = [input_data EXCEPT ![i] = v]
    /\ button' = FALSE
    /\ UNCHANGED selected_model_name

\* The user clicks Predict.
ClickPredict ==
    /\ Restart
    /\ button' = TRUE
    /\ UNCHANGED <<selected_model_name, input_data>>

Next ==
    \/ LoadModelNotFound
    \/ LoadModelFail
    \/ LoadModel
    \/ ConnectFail
    \/ Connect
    \/ EnsureSchema
    \/ GlobalImportanceFail
    \/ ShowGlobalImportance
    \/ PredictFail
    \/ Predict
    \/ ExplainFail
    \/ Explain
    \/ InsertFail
    \/ Insert
    \/ CommitFail
    \/ Commit
    \/ Close
    \/ SelectModel
    \/ EnterFeature
    \/ ClickPredict

Spec == Init /\ [][Next]_vars

\* ---------------------------------------------------------------- properties

\* The row the current run committed, when it committed one.
Committed == button /\ pc \in {"close", "done"}
LastRow == rows[Len(rows)]

C2_UnknownModelWritesNothing ==
    /\ (selected_model_name \notin model_names /\ pc # "load") =>
          (pc = "failed" /\ err = "KeyError")
    /\ err = "KeyError" =>
          /\ selected_model_name \notin model_names
          /\ conn = "unbound"
          /\ rows = rows_at_start
          /\ pending = None
          /\ insert_attempts = 0

C2_Witness ==
    /\ selected_model_name = "Unknown"
    /\ pc = "failed"
    /\ err = "KeyError"
    /\ Len(rows) = 1

\* C3: in every row the two probability columns are null together, and the
\* row a run appends holds null in both when the model has no predict_proba
\* and the model's own two probabilities when it has.
C3_NullableProbabilities ==
    /\ \A k \in 1..Len(rows) :
          (rows[k].prediction_proba_benign = None) <=>
             (rows[k].prediction_proba_malignant = None)
    /\ Committed =>
          IF model.has_predict_proba
          THEN /\ LastRow.prediction_proba_benign = Some(prediction_proba[1][1])
               /\ LastRow.prediction_proba_malignant = Some(prediction_proba[1][2])
          ELSE /\ LastRow.prediction_proba_benign = None
               /\ LastRow.prediction_proba_malignant = None

C3_Witness ==
    /\ Len(rows) = 2
    /\ rows[1].prediction_proba_benign = None
    /\ rows[2].prediction_proba_benign # None
    /\ pc = "done"

\* C4: no step of any run changes or removes a row that is in predictions,
\* or drops the table: a step leaves the rows as they are or adds rows at
\* the end.
C4_AppendOnly ==
    [][/\ Len(rows') >= Len(rows)
       /\ SubSeq(rows', 1, Len(rows)) = rows
       /\ table_exists => table_exists']_vars

C4_Witness ==
    /\ Len(rows) = 2
    /\ rows_at_start = <<rows[1]>>
    /\ pc = "done"

\* C5: the table creation run on a database that already has predictions
\* raises nothing and leaves the table, its rows and its id sequence as they
\* are; applied twice in a row it gives what one application gives.
C5_EnsureSchemaIdempotent ==
    [][pc = "schema" =>
         /\ LET once == CreateTableIfNotExists(table_exists, rows, id_seq)
                twice == CreateTableIfNotExists(once.table_exists, once.rows,
                                                once.id_seq)
            IN twice = once
         /\ table_exists =>
              /\ pc' = "importance"
              /\ err' = "none"
              /\ table_exists'
              /\ rows' = rows
              /\ id_seq' = id_seq]_vars

C5_Witness ==
    /\ pc = "importance"
    /\ runs = 3
    /\ Len(rows) = 1
    /\ err = "none"

\* C6: in every terminal state of a run, normal or failed, the connection
\* the run opened is closed.
C6_ConnectionReleasedOnEveryExit ==
    pc \in {"done", "failed"} => conn # "open"

\* C7 as stated: a storage write error reaches the caller only after a
\* second attempt of the insert has failed too.
C7_RetriedOnceBeforeSurfacing ==
    (pc = "failed" /\ err = "StorageWriteError") => insert_attempts = 2

\* C7 as amended: a storage write error is not retried; it reaches the
\* caller after the one attempt of the insert, and that run stores no row.
C7_StorageErrorSurfacesAtOnce ==
    /\ insert_attempts <= 1
    /\ err = "StorageWriteError" =>
          /\ pc = "failed"
          /\ insert_attempts = 1
          /\ rows = rows_at_start
          /\ pending = None

C7_Witness ==
    /\ pc = "failed"
    /\ err = "StorageWriteError"
    /\ insert_attempts = 1
    /\ id_seq = Len(rows)
    /\ Len(rows) = 1

\* C8: the contributions of a prediction have one score per schema feature;
\* for logistic regression score i is coef_[i] * input[i], for a tree model
\* it is feature_importances_[i] * input[i], which is not negative when
\* neither factor is.
C8_LocalContributionFormula ==
    feature_contributions # <<>> =>
        /\ DOMAIN feature_contributions = features
        /\ \A i \in features :
              IF selected_model_name = "Logistic Regression"
              THEN feature_contributions[i] = model.coef_[i] * input_data[i]
              ELSE /\ feature_contributions[i] =
                         model.feature_importances_[i] * input_data[i]
                   /\ (model.feature_importances_[i] >= 0 /\ input_data[i] >= 0)
                         => feature_contributions[i] >= 0

C8_Witness ==
    /\ selected_model_name = "Logistic Regression"
    /\ feature_contributions # <<>>
    /\ \E i \in features :
          /\ model.coef_[i] < 0
          /\ input_data[i] > 0
          /\ feature_contributions[i] < 0

\* An order of the features and the scores it presents.
IsOrderOfFeatures(p) ==
    /\ DOMAIN p = features
    /\ \A f \in features : \E i \in features : p[i] = f
Ascending(p, scores) ==
    \A i, j \in features : i < j => scores[p[i]] <= scores[p[j]]
Descending(p, scores) ==
    \A i, j \in features : i < j => scores[p[i]] >= scores[p[j]]
TiesInSchemaOrder(p, scores) ==
    \A i, j \in features :
        (i < j /\ scores[p[i]] = scores[p[j]]) => p[i] < p[j]

\* C9 as stated: the global importance is presented ascending and the
\* contributions descending, and in both features of equal score keep their
\* schema order.
C9_SortedWithStableTies ==
    /\ global_importance_df_sorted # <<>> =>
          /\ Ascending(global_importance_df_sorted,
                       GlobalImportance(selected_model_name, model))
          /\ TiesInSchemaOrder(global_importance_df_sorted,
                               GlobalImportance(selected_model_name, model))
    /\ feature_contributions_sorted # <<>> =>
          /\ Descending(feature_contributions_sorted, feature_contributions)
          /\ TiesInSchemaOrder(feature_contributions_sorted, feature_contributions)

\* C9 as amended: the global importance is presented ascending and the
\* contributions descending, each presentation holding every schema feature
\* once; the order among features of equal score is not fixed.
C9_SortedByScore ==
    /\ global_importance_df_sorted # <<>> =>
          /\ IsOrderOfFeatures(global_importance_df_sorted)
          /\ Ascending(global_importance_df_sorted,
                       GlobalImportance(selected_model_name, model))
    /\ feature_contributions_sorted # <<>> =>
          /\ IsOrderOfFeatures(feature_contributions_sorted)
          /\ Descending(feature_contributions_sorted, feature_contributions)

C9_Witness ==
    /\ pc = "done"
    /\ global_importance_df_sorted # <<>>
    /\ feature_contributions_sorted # <<>>
    /\ \E i, j \in features :
          feature_contributions[i] < feature_contributions[j]
    /\ \E i, j \in features :
          GlobalImportance(selected_model_name, model)[i] <
             GlobalImportance(selected_model_name, model)[j]

\* C10: a run that fails in model evaluation or in the explanation has
\* called that step once, has not attempted the insert, and leaves
\* predictions as it was; the insert is attempted only after both steps.
C10_InferenceFailureWritesNothing ==
    /\ (pc = "failed" /\ err = "InferenceError") =>
          /\ predict_calls = 1
          /\ explain_calls = 0
    /\ (pc = "failed" /\ err = "ExplanationError") =>
          /\ predict_calls = 1
          /\ explain_calls = 1
    /\ err \in {"InferenceError", "ExplanationError"} =>
          /\ pc = "failed"
          /\ insert_attempts = 0
          /\ rows = rows_at_start
          /\ pending = None
    /\ insert_attempts > 0 => (predict_calls = 1 /\ explain_calls = 1)

C10_Witness ==
    /\ pc = "failed"
    /\ err = "InferenceError"
    /\ Len(rows) = 1
    /\ rows = rows_at_start


====
